---------------------------- MODULE Spec2Model ----------------------------
(***************************************************************************)
(* TRAC Risk Detector (src/app.py): the rule-based risk engine             *)
(* (analyze_address, analyze_message, parse_intent) and the /api/analyze   *)
(* handler that calls it.                                                  *)
(*                                                                         *)
(* A Python str is modelled as a sequence of one-character strings over    *)
(* ASCII.  Every call is a request/response cycle: a call step runs the    *)
(* whole function on an input, Respond discards the values again (the code *)
(* keeps no state between calls).                                          *)
(*                                                                         *)
(* hashlib.md5 is not computed: the digest of an address is an arbitrary   *)
(* natural number chosen with the call (variable digest).  The code reads  *)
(* the digest only through seed % 5000, seed % 365 and seed % 100000.      *)
(***************************************************************************)
EXTENDS Integers, Sequences, FiniteSets, TLC

VARIABLES
    pc,        \* "idle": no call in progress; "done": a call has returned;
               \* "scored": analyze_address has summed the weights (line 96)
    call,      \* the function or route of the last call
    arg,       \* its input text
    digest,    \* <<seed>> when the call computed an md5 digest, else <<>>
    response   \* what it returned

vars == <<pc, call, arg, digest, response>>

---------------------------------------------------------------------------
(* Characters and the str methods the code uses                            *)

LowerLetters ==
    {"a","b","c","d","e","f","g","h","i","j","k","l","m","n","o","p","q","r",
     "s","t","u","v","w","x","y","z"}

UpperLetters ==
    {"A","B","C","D","E","F","G","H","I","J","K","L","M","N","O","P","Q","R",
     "S","T","U","V","W","X","Y","Z"}

Digits == {"0","1","2","3","4","5","6","7","8","9"}

UpperSeq ==
    <<"A","B","C","D","E","F","G","H","I","J","K","L","M","N","O","P","Q","R",
      "S","T","U","V","W","X","Y","Z">>

LowerSeq ==
    <<"a","b","c","d","e","f","g","h","i","j","k","l","m","n","o","p","q","r",
      "s","t","u","v","w","x","y","z">>

\* str.isspace for the ASCII characters: what strip() removes, what \S refuses
Whitespace == {" ", "\t", "\n", "\r", "\f"}

\* the regex class \w, which \b is defined by
WordChars == LowerLetters \cup UpperLetters \cup Digits \cup {"_"}

\* one character of str.lower()
LowerChar(c) ==
    IF c \in UpperLetters
    THEN LowerSeq[CHOOSE i \in 1..26 : UpperSeq[i] = c]
    ELSE c

\* str.lower()
Lower(s) == [i \in 1..Len(s) |-> LowerChar(s[i])]

\* str.strip(): leading and trailing whitespace removed
Strip(s) ==
    LET keep == {i \in 1..Len(s) : s[i] \notin Whitespace}
    IN  IF keep = {} THEN <<>>
        ELSE LET lo == CHOOSE i \in keep : \A j \in keep : i <= j
                 hi == CHOOSE i \in keep : \A j \in keep : i >= j
             IN  SubSeq(s, lo, hi)

\* sub occurs in s starting at index i
OccursAt(s, i, sub) ==
    /\ i >= 1
    /\ i + Len(sub) - 1 <= Len(s)
    /\ \A k \in 1..Len(sub) : s[i + k - 1] = sub[k]

\* the Python operator  sub in s
Contains(s, sub) == \E i \in 1..(Len(s) + 1) : OccursAt(s, i, sub)

\* str.replace("0x", ""): occurrences removed left to right, in one pass
RECURSIVE Remove0xFrom(_, _)
Remove0xFrom(s, i) ==
    IF i > Len(s) THEN <<>>
    ELSE IF OccursAt(s, i, <<"0","x">>) THEN Remove0xFrom(s, i + 2)
    ELSE <<s[i]>> \o Remove0xFrom(s, i + 1)

\* str.count('0')
CountZero(s) == Cardinality({i \in 1..Len(s) : s[i] = "0"})

\* the regex anchor $: the end of the string, or just before a final newline
AtDollar(s, p) == p = Len(s) + 1 \/ (p = Len(s) /\ s[p] = "\n")

\* the number of characters of s from index i on that lie in class, at most max
RECURSIVE RunLength(_, _, _, _)
RunLength(s, i, class, max) ==
    IF max = 0 \/ i > Len(s) \/ s[i] \notin class THEN 0
    ELSE 1 + RunLength(s, i + 1, class, max - 1)

---------------------------------------------------------------------------
(* analyze_address                                                         *)

KNOWN_SCAM_PATTERNS ==
    { <<"0","x">> \o [i \in 1..36 |-> "0"] \o <<"d","e","a","d">>,
      <<"0","x">> \o [i \in 1..40 |-> "0"] }

\* the class [0-9a-f]
LowerHex == Digits \cup {"a","b","c","d","e","f"}

\* the class [a-km-zA-HJ-NP-Z1-9]
Base58Like ==
    ((LowerLetters \ {"l"}) \cup (UpperLetters \ {"I","O"}) \cup Digits) \ {"0"}

\* the class [a-z0-9]
LowerAlnum == LowerLetters \cup Digits

\* address.strip().lower()
Normalize(address) == Lower(Strip(address))

\* eth_pattern.match(address): ^0x[0-9a-f]{40}$
is_eth(address) ==
    /\ OccursAt(address, 1, <<"0","x">>)
    /\ RunLength(address, 3, LowerHex, 40) = 40
    /\ AtDollar(address, 43)

\* btc_pattern.match(address):
\*   ^[13][a-km-zA-HJ-NP-Z1-9]{25,34}$|^bc1[a-z0-9]{39,59}$
is_btc(address) ==
    \/ /\ Len(address) >= 1
       /\ address[1] \in {"1","3"}
       /\ \E n \in 25..34 :
             /\ RunLength(address, 2, Base58Like, n) = n
             /\ AtDollar(address, n + 2)
    \/ /\ OccursAt(address, 1, <<"b","c","1">>)
       /\ \E n \in 39..59 :
             /\ RunLength(address, 4, LowerAlnum, n) = n
             /\ AtDollar(address, n + 4)

\* faulty variants: the length test off by one, either way
FormatRejected_Below19(address) ==
    ~is_eth(address) /\ ~is_btc(address) /\ Len(address) < 19

FormatRejected_UpTo20(address) ==
    ~is_eth(address) /\ ~is_btc(address) /\ Len(address) <= 20

\* the early return's condition
FormatRejected(address) ==
    ~is_eth(address) /\ ~is_btc(address) /\ Len(address) < 20

InvalidResult ==
    [ valid      |-> FALSE,
      risk_score |-> 0,
      risk_level |-> "UNKNOWN",
      flags      |-> <<"Invalid address format">>,
      details    |-> "Address format not recognized. Supported: ETH (0x...), BTC, TRAC." ]

addr_type(address) ==
    IF is_eth(address) THEN "ETH"
    ELSE IF is_btc(address) THEN "BTC" ELSE "TRAC/OTHER"

\* faulty variant: the deny-list without the "dead" address
known_scam_ZeroOnly(address) == address = <<"0","x">> \o [i \in 1..40 |-> "0"]

\* address in KNOWN_SCAM_PATTERNS
known_scam(address) == address \in KNOWN_SCAM_PATTERNS

\* len(set(address.replace("0x", "")))
unique_chars(address) ==
    LET rest == Remove0xFrom(address, 1)
    IN  Cardinality({rest[i] : i \in 1..Len(rest)})

low_entropy(address) == unique_chars(address) < 5

zero_count(address) == CountZero(address)

\* faulty variant: the zero-count test off by one
many_zeros_From10(address) == zero_count(address) >= 10

many_zeros(address) == zero_count(address) > 10

\* the simulated blockchain activity
tx_count(s) == s % 5000

age_days(s) == s % 365

\* faulty variant: the balance taken modulo 1000
balance_Mod1000(s) == s % 1000

\* balance, in thousandths: (seed % 100000) / 1000 is zero exactly when this
\* is, and prints with three decimals as its quotient and remainder by 1000
balance(s) == s % 100000

\* f"{balance:.3f}", as the integer part and the three decimals
format_balance(s) == <<balance(s) \div 1000, balance(s) % 1000>>

high_frequency(s) == tx_count(s) > 2000 /\ age_days(s) < 30

new_and_active(s) == age_days(s) < 7 /\ tx_count(s) > 100

dust_attacker(s) == balance(s) = 0 /\ tx_count(s) > 500

\* what the three activity rules add to risk_score
activity_score(s) ==
      (IF high_frequency(s) THEN 35 ELSE 0)
    + (IF new_and_active(s) THEN 25 ELSE 0)
    + (IF dust_attacker(s) THEN 15 ELSE 0)

activity_flags(s) ==
       (IF high_frequency(s)
        THEN <<"Abnormally high transaction frequency">> ELSE <<>>)
    \o (IF new_and_active(s)
        THEN <<"Very new wallet with high activity">> ELSE <<>>)
    \o (IF dust_attacker(s)
        THEN <<"Zero balance despite high transaction count - possible dust attacker">>
        ELSE <<>>)

activity_details(s) ==
       (IF high_frequency(s)
        THEN << <<"txs in days suggests bot or spam activity",
                  tx_count(s), age_days(s)>> >>
        ELSE <<>>)
    \o (IF new_and_active(s)
        THEN << <<"Newly created wallets with sudden high activity are common in scams.">> >>
        ELSE <<>>)

\* what the three static rules add to risk_score
static_score(address) ==
      (IF known_scam(address) THEN 90 ELSE 0)
    + (IF low_entropy(address) THEN 30 ELSE 0)
    + (IF many_zeros(address) THEN 20 ELSE 0)

static_flags(address) ==
       (IF known_scam(address) THEN <<"Known scam/burn address">> ELSE <<>>)
    \o (IF low_entropy(address)
        THEN <<"Low entropy - suspicious character repetition">> ELSE <<>>)
    \o (IF many_zeros(address)
        THEN <<"High zero count - possible vanity/generated address">> ELSE <<>>)

static_details(address) ==
    IF low_entropy(address)
    THEN << <<"Addresses with very few unique characters may be crafted to deceive.">> >>
    ELSE <<>>

\* faulty variant: the score not clamped
clamp_None(score) == score

\* min(risk_score, 100)
clamp(score) == IF score < 100 THEN score ELSE 100

\* faulty variant: the thresholds exclusive
risk_level_Exclusive(score) ==
    IF score > 70 THEN "HIGH"
    ELSE IF score > 40 THEN "MEDIUM"
    ELSE IF score > 15 THEN "LOW"
    ELSE "SAFE"

risk_level(score) ==
    IF score >= 70 THEN "HIGH"
    ELSE IF score >= 40 THEN "MEDIUM"
    ELSE IF score >= 15 THEN "LOW"
    ELSE "SAFE"

address_verdict(score) ==
    IF score >= 70 THEN "HIGH RISK - Avoid interaction with this address."
    ELSE IF score >= 40 THEN "MEDIUM RISK - Proceed with caution."
    ELSE IF score >= 15 THEN "LOW RISK - Appears relatively safe, but always DYOR."
    ELSE "SAFE - No significant risk signals detected."

\* analyze_address(raw), with s the md5 digest of the normalized address
analyze_address(raw, s) ==
    LET address == Normalize(raw)
    IN  IF FormatRejected(address) THEN InvalidResult
        ELSE
          LET risk_score == clamp(static_score(address) + activity_score(s))
              flags      == static_flags(address) \o activity_flags(s)
          IN  [ valid      |-> TRUE,
                address    |-> address,
                type       |-> addr_type(address),
                risk_score |-> risk_score,
                risk_level |-> risk_level(risk_score),
                verdict    |-> address_verdict(risk_score),
                flags      |-> IF flags # <<>> THEN flags
                               ELSE <<"No suspicious patterns detected.">>,
                simulated_stats |->
                    [ estimated_tx_count |-> tx_count(s),
                      wallet_age_days    |-> age_days(s),
                      estimated_balance  |-> format_balance(s) ],
                details    |-> static_details(address) \o activity_details(s) ]

---------------------------------------------------------------------------
(* analyze_message                                                         *)

SUSPICIOUS_KEYWORDS ==
    << <<"f","r","e","e">>,
       <<"a","i","r","d","r","o","p">>,
       <<"1","0","0","x">>,
       <<"g","u","a","r","a","n","t","e","e","d">>,
       <<"s","e","n","d"," ","e","t","h">>,
       <<"d","o","u","b","l","e"," ","y","o","u","r">>,
       <<"c","o","n","n","e","c","t"," ","w","a","l","l","e","t">>,
       <<"c","l","a","i","m"," ","n","o","w">>,
       <<"l","i","m","i","t","e","d"," ","t","i","m","e">>,
       <<"w","h","i","t","e","l","i","s","t">> >>

\* the keywords again, as they appear in the flags
KeywordNames ==
    << "free", "airdrop", "100x", "guaranteed", "send eth", "double your",
       "connect wallet", "claim now", "limited time", "whitelist" >>

\* the alternatives of the urgency pattern
UrgencyPhrases ==
    << <<"u","r","g","e","n","t">>,
       <<"h","u","r","r","y">>,
       <<"e","x","p","i","r","e">>,
       <<"l","a","s","t"," ","c","h","a","n","c","e">>,
       <<"a","c","t"," ","n","o","w">> >>

IsWordAt(s, p) == p >= 1 /\ p <= Len(s) /\ s[p] \in WordChars

\* the regex assertion \b between the characters at p - 1 and p
WordBoundary(s, p) == IsWordAt(s, p - 1) # IsWordAt(s, p)

\* the number of characters of s from index i on that are not whitespace (\S+)
RECURSIVE NonSpaceRun(_, _)
NonSpaceRun(s, i) ==
    IF i > Len(s) \/ s[i] \in Whitespace THEN 0
    ELSE 1 + NonSpaceRun(s, i + 1)

\* where a match of https?://\S+ that starts at i ends (the index after it),
\* 0 when none starts there
UrlEndAt(s, i) ==
    IF ~OccursAt(s, i, <<"h","t","t","p">>) THEN 0
    ELSE IF OccursAt(s, i + 4, <<"s",":","/","/">>) /\ NonSpaceRun(s, i + 8) > 0
         THEN i + 8 + NonSpaceRun(s, i + 8)
    ELSE IF OccursAt(s, i + 4, <<":","/","/">>) /\ NonSpaceRun(s, i + 7) > 0
         THEN i + 7 + NonSpaceRun(s, i + 7)
    ELSE 0

\* len(re.findall(r'https?://\S+', s)) for the part of s from index i on
RECURSIVE CountUrls(_, _)
CountUrls(s, i) ==
    IF i > Len(s) THEN 0
    ELSE IF UrlEndAt(s, i) > 0 THEN 1 + CountUrls(s, UrlEndAt(s, i))
    ELSE CountUrls(s, i + 1)

\* urls = re.findall(r'https?://\S+', text): the scan reads text, not text_lower
urls(text) == CountUrls(text, 1)

\* re.search(r'\b(urgent|hurry|expire|last chance|act now)\b', text_lower)
urgency(text_lower) ==
    \E k \in 1..Len(UrgencyPhrases), i \in 1..Len(text_lower) :
        /\ OccursAt(text_lower, i, UrgencyPhrases[k])
        /\ WordBoundary(text_lower, i)
        /\ WordBoundary(text_lower, i + Len(UrgencyPhrases[k]))

\* the keywords found, in list order
keyword_hits(text_lower) ==
    SelectSeq([k \in 1..Len(SUSPICIOUS_KEYWORDS) |-> k],
              LAMBDA k : Contains(text_lower, SUSPICIOUS_KEYWORDS[k]))

KeywordFlag(k) ==
    [kind |-> "Suspicious keyword detected", keyword |-> KeywordNames[k], count |-> 0]

UrlFlag(n) ==
    [kind |-> "Contains URL(s) - verify before clicking", keyword |-> "", count |-> n]

UrgencyFlag ==
    [kind |-> "Urgency language detected - classic social engineering tactic",
     keyword |-> "", count |-> 0]

NoPatternFlag ==
    [kind |-> "No obvious scam patterns detected.", keyword |-> "", count |-> 0]

message_verdict(score) ==
    IF score >= 60 THEN "HIGH RISK message - likely a scam attempt."
    ELSE IF score >= 30 THEN "SUSPICIOUS - contains multiple red flags."
    ELSE "LOW RISK - no obvious scam indicators."

analyze_message(text) ==
    LET text_lower == Lower(text)
        hits       == keyword_hits(text_lower)
        n_urls     == urls(text)
        urgent     == urgency(text_lower)
        risk_score == clamp(  15 * Len(hits)
                            + (IF n_urls > 0 THEN 20 ELSE 0)
                            + (IF urgent THEN 25 ELSE 0))
        flags      ==    [j \in 1..Len(hits) |-> KeywordFlag(hits[j])]
                      \o (IF n_urls > 0 THEN <<UrlFlag(n_urls)>> ELSE <<>>)
                      \o (IF urgent THEN <<UrgencyFlag>> ELSE <<>>)
    IN  [ type       |-> "message_analysis",
          risk_score |-> risk_score,
          verdict    |-> message_verdict(risk_score),
          flags      |-> IF flags # <<>> THEN flags ELSE <<NoPatternFlag>> ]

---------------------------------------------------------------------------
(* parse_intent                                                            *)

\* the class [0-9a-fA-F]
AnyHex == LowerHex \cup {"A","B","C","D","E","F"}

NoMatch == <<0, 0>>

\* whether 0x[0-9a-fA-F]{40} matches at index i
EthTokenAt(s, i) ==
    OccursAt(s, i, <<"0","x">>) /\ RunLength(s, i + 2, AnyHex, 40) = 40

\* re.search(r'0x[0-9a-fA-F]{40}', text) as <<start, length>>
eth_match(text) ==
    LET at == {i \in 1..Len(text) : EthTokenAt(text, i)}
    IN  IF at = {} THEN NoMatch
        ELSE << CHOOSE i \in at : \A j \in at : i <= j, 42 >>

\* the lengths n in lo..hi for which prefix, n characters of class and \b
\* match at index i, the prefix being k characters long
TokenLengths(s, i, k, class, lo, hi) ==
    { n \in lo..RunLength(s, i + k, class, hi) : WordBoundary(s, i + k + n) }

Largest(S) == CHOOSE n \in S : \A m \in S : m <= n

\* the length of the match of
\*   \b[13][a-km-zA-HJ-NP-Z1-9]{25,34}\b|\bbc1[a-z0-9]{39,59}\b
\* at index i (the repetition is greedy and backs off to reach a \b; the
\* left alternative is tried first), 0 when it does not match there
BtcTokenLengthAt(s, i) ==
    LET legacy == TokenLengths(s, i, 1, Base58Like, 25, 34)
        bech32 == TokenLengths(s, i, 3, LowerAlnum, 39, 59)
    IN  IF ~WordBoundary(s, i) THEN 0
        ELSE IF s[i] \in {"1","3"} /\ legacy # {} THEN 1 + Largest(legacy)
        ELSE IF OccursAt(s, i, <<"b","c","1">>) /\ bech32 # {}
             THEN 3 + Largest(bech32)
        ELSE 0

\* re.search of the BTC pattern as <<start, length>>
btc_match(text) ==
    LET at == {i \in 1..Len(text) : BtcTokenLengthAt(text, i) > 0}
    IN  IF at = {} THEN NoMatch
        ELSE LET i == CHOOSE i \in at : \A j \in at : i <= j
             IN  <<i, BtcTokenLengthAt(text, i)>>

Group0(text, m) == SubSeq(text, m[1], m[1] + m[2] - 1)

\* faulty variant: the match that starts first, of either style
address_match_Earliest(text) ==
    LET e == eth_match(text)
        b == btc_match(text)
    IN  IF e = NoMatch THEN b
        ELSE IF b = NoMatch THEN e
        ELSE IF b[1] < e[1] THEN b ELSE e

\* eth_match or btc_match
address_match(text) ==
    LET e == eth_match(text)
    IN  IF e # NoMatch THEN e ELSE btc_match(text)

SafetyPhrases ==
    << <<"i","s"," ","t","h","i","s">>,
       <<"c","h","e","c","k"," ","t","h","i","s"," ","m","e","s","s","a","g","e">>,
       <<"i","s"," ","i","t"," ","s","a","f","e">>,
       <<"s","c","a","m","?">> >>

GreetingPhrases ==
    << <<"h","e","l","l","o">>,
       <<"h","i">>,
       <<"h","e","l","p">>,
       <<"w","h","a","t"," ","c","a","n">> >>

asks_about_safety(text) ==
    \E k \in 1..Len(SafetyPhrases) : Contains(Lower(text), SafetyPhrases[k])

asks_for_help(text) ==
    \E k \in 1..Len(GreetingPhrases) : Contains(Lower(text), GreetingPhrases[k])

HelpResult ==
    [ message |-> "Welcome to TRAC Risk Detector! I can help you: ..." ]

\* faulty variant: the help test before the safety test
route_HelpFirst(text) ==
    IF address_match(text) # NoMatch THEN "address"
    ELSE IF asks_for_help(text) THEN "help"
    ELSE IF asks_about_safety(text) THEN "safety"
    ELSE "default"

\* which of the four returns of parse_intent the stripped text takes
route(text) ==
    IF address_match(text) # NoMatch THEN "address"
    ELSE IF asks_about_safety(text) THEN "safety"
    ELSE IF asks_for_help(text) THEN "help"
    ELSE "default"

\* parse_intent(user_input), with s the md5 digest analyze_address derives
parse_intent(user_input, s) ==
    LET text == Strip(user_input)
        taken == route(text)
    IN  CASE taken = "address" ->
               [ intent |-> "address_check",
                 result |-> analyze_address(Group0(text, address_match(text)), s) ]
          [] taken = "safety" ->
               [ intent |-> "message_check", result |-> analyze_message(text) ]
          [] taken = "help" ->
               [ intent |-> "help", result |-> HelpResult ]
          [] OTHER ->
               [ intent |-> "message_check", result |-> analyze_message(text) ]

---------------------------------------------------------------------------
(* Inputs                                                                  *)

MaxPad == 1
MaxZeros == 11
MaxOtherLen == 22
MaxPieces == 2
MaxTokens == 2
MaxSeed == 100000
MaxRawScore == 215

Rep(c, n) == [i \in 1..n |-> c]

Cycle(chars, n) == [i \in 1..n |-> chars[((i - 1) % Len(chars)) + 1]]

\* digests that trigger each combination of activity rules the moduli allow:
\* none (0, 50, 100000), new_and_active (365), high_frequency (2200), both (2190)
SeedSamples == {0, 50, 365, 2190, 2200, 100000}

Pads == {Rep(" ", k) : k \in 0..MaxPad} \cup { <<"\n">> }

HexCycles ==
    { <<"a","1","b","2","c","3","d">>, <<"A","b","C","d","E">>,
      <<"a","b","c","d">>, <<"f","F">> }

\* 0x, z zeros, then 40 - z characters of a hex cycle
EthBodies ==
    { <<"0","x">> \o Rep("0", z) \o Cycle(h, 40 - z) :
          z \in 0..MaxZeros, h \in HexCycles }
    \cup { <<"0","X">> \o Rep("0", 36) \o <<"D","E","A","D">>,
           <<"0","x">> \o Rep("0", 40) }

OtherCycles ==
    { <<"t","r","a","c","9">>, <<"0","x","a">>, <<"z","Z">> }

OtherBodies == { Cycle(h, n) : n \in 0..MaxOtherLen, h \in OtherCycles }

BtcCycles == { <<"B","o","a","t","7","k","W">>, <<"q","L","9">> }

BtcBodies ==
    { <<p>> \o Cycle(h, n) : p \in {"1","3"}, n \in 24..35, h \in BtcCycles }
    \cup { <<"b","c","1">> \o Cycle(<<"q","0","x","7">>, n) : n \in 38..40 }

AddressBodies == EthBodies \cup OtherBodies \cup BtcBodies

AddressInputs ==
    { l \o b \o r : l \in Pads, r \in { <<>>, <<"\t">> }, b \in AddressBodies }

\* the texts made of at most n pieces, each followed by a separator
RECURSIVE Texts(_, _, _)
Texts(pieces, seps, n) ==
    IF n = 0 THEN { <<>> }
    ELSE LET shorter == Texts(pieces, seps, n - 1)
         IN  shorter \cup { t \o s \o p : t \in shorter, s \in seps, p \in pieces }

MessagePieces ==
    { <<"f","r","e","e">>,
      <<"F","R","E","E"," ","a","i","r","d","r","o","p"," ","1","0","0","x",
        " ","g","u","a","r","a","n","t","e","e","d">>,
      <<"c","l","a","i","m"," ","n","o","w">>,
      <<"h","t","t","p",":","/","/","a",".","i","o">>,
      <<"H","T","T","P",":","/","/","A",".","I","O">>,
      <<"h","t","t","p","s",":","/","/","b",".","i","o"," ","a","c","t"," ",
        "n","o","w">>,
      <<"h","t","t","p","s",":","/","/">>,
      <<"u","r","g","e","n","t">>,
      <<"H","u","r","r","y">>,
      <<"h","i">>,
      <<"i","s"," ","t","h","i","s">>,
      <<"o","k">> }

Separators == { <<>>, <<" ">> }

MessageInputs == Texts(MessagePieces, Separators, MaxPieces)

EthToken == <<"0","x">> \o Cycle(<<"7","4","2","d","3","5","C","c">>, 40)

BtcToken == <<"1">> \o Cycle(<<"B","o","a","t","S","L","R","H","7">>, 33)

\* a bech32-style token with an ETH-style token inside it
Bech32Token ==
    <<"b","c","1","q">> \o <<"0","x">> \o Cycle(<<"a","1","b","2","c">>, 40)

RouterPieces ==
    { EthToken, BtcToken, Bech32Token,
      <<"i","s"," ","i","t"," ","s","a","f","e">>,
      <<"s","c","a","m","?">>,
      <<"h","i">>,
      <<"H","E","L","L","O">>,
      <<"f","r","e","e"," ","a","i","r","d","r","o","p">> }

RouterInputs ==
    Texts(RouterPieces, Separators, MaxTokens)
    \cup { <<" ">> \o p \o <<"\n">> : p \in RouterPieces \cup { <<>> } }

\* the digests tried with the addresses the router extracts
RouterSeeds == {50, 2190}

---------------------------------------------------------------------------
(* The calls                                                               *)

NoResponse == [none |-> TRUE]

Init ==
    /\ pc = "idle"
    /\ call = "none"
    /\ arg = <<>>
    /\ digest = <<>>
    /\ response = NoResponse

\* a direct call of analyze_address; the digest is computed on line 77, after
\* the early return
CallAnalyzeAddress ==
    /\ pc = "idle"
    /\ \E a \in AddressInputs :
          LET hashed == ~FormatRejected(Normalize(a))
          IN  \E s \in IF hashed THEN SeedSamples ELSE {0} :
                 /\ arg' = a
                 /\ response' = analyze_address(a, s)
                 /\ digest' = IF hashed THEN <<s>> ELSE <<>>
    /\ call' = "analyze_address"
    /\ pc' = "done"

\* a direct call of analyze_message
CallAnalyzeMessage ==
    /\ pc = "idle"
    /\ \E t \in MessageInputs :
          /\ arg' = t
          /\ response' = analyze_message(t)
    /\ digest' = <<>>
    /\ call' = "analyze_message"
    /\ pc' = "done"

\* POST /api/analyze with a JSON body that has a message
ApiAnalyze ==
    /\ pc = "idle"
    /\ \E t \in RouterInputs :
          LET hashed == address_match(Strip(t)) # NoMatch
          IN  \E s \in IF hashed THEN RouterSeeds ELSE {0} :
                 /\ arg' = t
                 /\ response' = [status |-> 200, body |-> parse_intent(t, s)]
                 /\ digest' = IF hashed THEN <<s>> ELSE <<>>
    /\ call' = "analyze"
    /\ pc' = "done"

\* POST /api/analyze with no JSON body, or one without a message
ApiAnalyzeNoMessage ==
    /\ pc = "idle"
    /\ arg' = <<>>
    /\ response' = [status |-> 400, body |-> [error |-> "No message provided"]]
    /\ digest' = <<>>
    /\ call' = "analyze"
    /\ pc' = "done"

\* the call has returned; nothing of it is kept
Respond ==
    /\ pc = "done"
    /\ pc' = "idle"
    /\ call' = "none"
    /\ arg' = <<>>
    /\ digest' = <<>>
    /\ response' = NoResponse

Next ==
    \/ CallAnalyzeAddress
    \/ CallAnalyzeMessage
    \/ ApiAnalyze
    \/ ApiAnalyzeNoMessage
    \/ Respond

Spec == Init /\ [][Next]_vars

\* The activity rules alone, over every digest up to MaxSeed
InitActivity ==
    /\ pc = "idle"
    /\ call = "none"
    /\ arg = <<>>
    /\ digest \in { <<s>> : s \in 0..MaxSeed }
    /\ response = NoResponse

\* lines 77 to 94 of analyze_address on that digest
SimulateActivity ==
    /\ pc = "idle"
    /\ response' = [ tx_count   |-> tx_count(digest[1]),
                     age_days   |-> age_days(digest[1]),
                     balance    |-> balance(digest[1]),
                     risk_score |-> activity_score(digest[1]),
                     flags      |-> activity_flags(digest[1]) ]
    /\ call' = "activity"
    /\ pc' = "done"
    /\ UNCHANGED <<arg, digest>>

NextActivity == SimulateActivity

SpecActivity == InitActivity /\ [][NextActivity]_vars

\* The bucketing on its own as well, over every sum the six weights can reach
\* (analyze_address itself never produces a score of 15, 40 or 70)
InitBucket ==
    /\ pc = "scored"
    /\ call = "none"
    /\ arg = <<>>
    /\ digest = <<>>
    /\ response \in { [raw_score |-> n] : n \in 0..MaxRawScore }

\* lines 96 to 109 of analyze_address on that sum
BucketScore ==
    /\ pc = "scored"
    /\ response' = [ raw_score  |-> response.raw_score,
                     risk_score |-> clamp(response.raw_score),
                     risk_level |-> risk_level(clamp(response.raw_score)),
                     verdict    |-> address_verdict(clamp(response.raw_score)) ]
    /\ call' = "bucket"
    /\ pc' = "done"
    /\ UNCHANGED <<arg, digest>>

NextBucket == Next \/ BucketScore

SpecBucket == (Init \/ InitBucket) /\ [][NextBucket]_vars

---------------------------------------------------------------------------
(* The claims                                                              *)

Min(a, b) == IF a < b THEN a ELSE b

RECURSIVE SumSeq(_)
SumSeq(q) == IF q = <<>> THEN 0 ELSE Head(q) + SumSeq(Tail(q))

InSeq(x, q) == \E i \in 1..Len(q) : q[i] = x

AddressCallDone == pc = "done" /\ call = "analyze_address"

MessageCallDone == pc = "done" /\ call = "analyze_message"

RouterCallDone == pc = "done" /\ call = "analyze" /\ response.status = 200

\* C1: an address whose normalized form matches neither the ETH nor the BTC
\* pattern and is shorter than 20 characters gets exactly the invalid result
\* (valid false, score 0, level UNKNOWN, the one flag), and nothing of the
\* scoring: no digest is computed and no scored field is returned.
C1_InvalidFormat ==
    AddressCallDone =>
        LET a == Normalize(arg)
        IN  (~is_eth(a) /\ ~is_btc(a) /\ Len(a) < 20) =>
                /\ response.valid = FALSE
                /\ response.risk_score = 0
                /\ response.risk_level = "UNKNOWN"
                /\ response.flags = <<"Invalid address format">>
                /\ DOMAIN response =
                      {"valid", "risk_score", "risk_level", "flags", "details"}
                /\ digest = <<>>

\* a padded, mixed-case input of 19 characters after normalization was rejected
C1_Witness ==
    /\ AddressCallDone
    /\ Len(Normalize(arg)) = 19
    /\ Normalize(arg) # arg
    /\ response.valid = FALSE

HasAddressToken(text) ==
    \E i \in 1..Len(text) : EthTokenAt(text, i) \/ BtcTokenLengthAt(text, i) > 0

\* C2: parse_intent answers every text with exactly one intent, by the first
\* of: an address token (address_check), a safety phrase (message_check), a
\* greeting phrase (the fixed help payload, unscored), else message_check;
\* the empty string is a message_check with score 0 and the sentinel flag.
C2_RoutePriority ==
    RouterCallDone =>
        LET text == Strip(arg)
            r    == response.body
        IN  /\ DOMAIN r = {"intent", "result"}
            /\ r.intent =
                  IF HasAddressToken(text) THEN "address_check"
                  ELSE IF asks_about_safety(text) THEN "message_check"
                  ELSE IF asks_for_help(text) THEN "help"
                  ELSE "message_check"
            /\ r.intent = "help" => r.result = HelpResult
            /\ r.intent = "message_check" => r.result = analyze_message(text)
            /\ arg = <<>> =>
                  /\ r.intent = "message_check"
                  /\ r.result.risk_score = 0
                  /\ r.result.flags = <<NoPatternFlag>>

\* a text with a safety phrase and a greeting phrase but no address was scored
\* as a message
C2_Witness ==
    /\ RouterCallDone
    /\ ~HasAddressToken(Strip(arg))
    /\ asks_about_safety(Strip(arg))
    /\ asks_for_help(Strip(arg))
    /\ response.body.intent = "message_check"

EthStarts(text) == {i \in 1..Len(text) : EthTokenAt(text, i)}

BtcStarts(text) == {i \in 1..Len(text) : BtcTokenLengthAt(text, i) > 0}

Least(S) == CHOOSE n \in S : \A m \in S : n <= m

FirstEthToken(text) ==
    SubSeq(text, Least(EthStarts(text)), Least(EthStarts(text)) + 41)

FirstBtcToken(text) ==
    LET i == Least(BtcStarts(text))
    IN  SubSeq(text, i, i + BtcTokenLengthAt(text, i) - 1)

\* the token that starts first in the text, of either style
EarliestToken(text) ==
    IF EthStarts(text) = {} THEN FirstBtcToken(text)
    ELSE IF BtcStarts(text) = {} THEN FirstEthToken(text)
    ELSE IF Least(BtcStarts(text)) < Least(EthStarts(text))
         THEN FirstBtcToken(text)
    ELSE FirstEthToken(text)

\* C3 as stated: the address analysed is the token that occurs earliest in the
\* text, whether ETH-style or BTC-style.
C3_EarliestToken ==
    (RouterCallDone /\ response.body.intent = "address_check") =>
        response.body.result.address = Lower(EarliestToken(Strip(arg)))

\* C3 as amended: the address analysed is the first ETH-style token when the
\* text has one, wherever the BTC-style tokens stand, and the first BTC-style
\* token only when it has no ETH-style token.
C3_EthTokenFirst ==
    (RouterCallDone /\ response.body.intent = "address_check") =>
        LET text == Strip(arg)
        IN  response.body.result.address =
               IF EthStarts(text) # {} THEN Lower(FirstEthToken(text))
               ELSE Lower(FirstBtcToken(text))

\* a BTC-style token stood before an ETH-style token and the ETH-style one
\* was analysed
C3_Witness ==
    /\ RouterCallDone
    /\ EthStarts(Strip(arg)) # {}
    /\ BtcStarts(Strip(arg)) # {}
    /\ Least(BtcStarts(Strip(arg))) < Least(EthStarts(Strip(arg)))
    /\ response.body.result.address = Lower(FirstEthToken(Strip(arg)))

\* the weight of each rule, by the flag it raises
RuleWeights ==
    << <<"Known scam/burn address", 90>>,
       <<"Low entropy - suspicious character repetition", 30>>,
       <<"High zero count - possible vanity/generated address", 20>>,
       <<"Abnormally high transaction frequency", 35>>,
       <<"Very new wallet with high activity", 25>>,
       <<"Zero balance despite high transaction count - possible dust attacker", 15>> >>

\* whether rule k of RuleWeights is triggered by address a with digest s
Triggered(k, a, s) ==
    CASE k = 1 -> a \in KNOWN_SCAM_PATTERNS
      [] k = 2 -> unique_chars(a) < 5
      [] k = 3 -> zero_count(a) > 10
      [] k = 4 -> s % 5000 > 2000 /\ s % 365 < 30
      [] k = 5 -> s % 365 < 7 /\ s % 5000 > 100
      [] k = 6 -> s % 100000 = 0 /\ s % 5000 > 500

WeightSum(a, s) ==
    SumSeq([k \in 1..6 |-> IF Triggered(k, a, s) THEN RuleWeights[k][2] ELSE 0])

\* C4: a valid result's risk_score is min(100, sum of the weights of the
\* triggered rules), the flags name exactly those rules, the score lies in
\* 0..100, and one more triggered rule would not lower it.
C4_ClampedWeightSum ==
    (AddressCallDone /\ response.valid) =>
        LET a == response.address
            s == digest[1]
        IN  /\ response.risk_score = Min(100, WeightSum(a, s))
            /\ response.risk_score \in 0..100
            /\ \A k \in 1..6 :
                  /\ Triggered(k, a, s) <=> InSeq(RuleWeights[k][1], response.flags)
                  /\ ~Triggered(k, a, s) =>
                        Min(100, WeightSum(a, s) + RuleWeights[k][2])
                            >= response.risk_score

\* the triggered weights passed 100 and the score was clamped
C4_Witness ==
    /\ AddressCallDone
    /\ response.valid
    /\ WeightSum(response.address, digest[1]) > 100
    /\ response.risk_score = 100

\* C5: in every valid result of analyze_address, and for every score the
\* bucketing is given, risk_level follows from risk_score alone: HIGH from 70,
\* MEDIUM from 40 to 69, LOW from 15 to 39, SAFE below 15, and each level has
\* its one verdict.
C5_LevelBuckets ==
    ((pc = "done" /\ call = "bucket") \/ (AddressCallDone /\ response.valid)) =>
        LET n == response.risk_score
        IN  /\ n >= 70 <=> response.risk_level = "HIGH"
            /\ (n >= 40 /\ n < 70) <=> response.risk_level = "MEDIUM"
            /\ (n >= 15 /\ n < 40) <=> response.risk_level = "LOW"
            /\ n < 15 <=> response.risk_level = "SAFE"
            /\ response.verdict =
                  CASE response.risk_level = "HIGH" ->
                         "HIGH RISK - Avoid interaction with this address."
                    [] response.risk_level = "MEDIUM" ->
                         "MEDIUM RISK - Proceed with caution."
                    [] response.risk_level = "LOW" ->
                         "LOW RISK - Appears relatively safe, but always DYOR."
                    [] response.risk_level = "SAFE" ->
                         "SAFE - No significant risk signals detected."

\* a score of exactly 70 was bucketed HIGH
C5_Witness ==
    /\ pc = "done"
    /\ call = "bucket"
    /\ response.risk_score = 70
    /\ response.risk_level = "HIGH"

\* C6 as stated: every rule reads the lower-cased text, so the score is
\* min(100, 15*K + 20*U + 25*G) with K, U and G taken from the lower-cased
\* text, the verdict is bucketed at 60 and 30, and a text scores as its
\* lower-cased form does.
C6_LowerCasedRules ==
    MessageCallDone =>
        LET low == Lower(arg)
            K   == Cardinality({k \in 1..Len(SUSPICIOUS_KEYWORDS) :
                                   Contains(low, SUSPICIOUS_KEYWORDS[k])})
            U   == IF \E i \in 1..Len(low) : UrlEndAt(low, i) > 0 THEN 1 ELSE 0
            G   == IF urgency(low) THEN 1 ELSE 0
            n   == Min(100, 15 * K + 20 * U + 25 * G)
        IN  /\ response.risk_score = n
            /\ response.verdict =
                  IF n >= 60 THEN "HIGH RISK message - likely a scam attempt."
                  ELSE IF n >= 30 THEN "SUSPICIOUS - contains multiple red flags."
                  ELSE "LOW RISK - no obvious scam indicators."

\* C7: an address that normalizes to a member of the deny-list is valid, of
\* type ETH, flagged as a known scam, scored at least 90 and HIGH, whatever
\* the digest.
C7_DenyListIsHigh ==
    (AddressCallDone /\ Normalize(arg) \in KNOWN_SCAM_PATTERNS) =>
        /\ response.valid
        /\ response.type = "ETH"
        /\ InSeq("Known scam/burn address", response.flags)
        /\ response.risk_score >= 90
        /\ response.risk_level = "HIGH"

\* the "dead" address, written in upper case, was found on the deny-list
C7_Witness ==
    /\ AddressCallDone
    /\ arg # Normalize(arg)
    /\ Normalize(arg) = <<"0","x">> \o Rep("0", 36) \o <<"d","e","a","d">>
    /\ response.risk_level = "HIGH"

\* the points the activity rules give for the returned statistics
ActivityPoints(stats) ==
    LET tx  == stats.estimated_tx_count
        age == stats.wallet_age_days
        bal == stats.estimated_balance
    IN    (IF tx > 2000 /\ age < 30 THEN 35 ELSE 0)
        + (IF age < 7 /\ tx > 100 THEN 25 ELSE 0)
        + (IF bal = <<0, 0>> /\ tx > 500 THEN 15 ELSE 0)

StaticFlags ==
    { "Known scam/burn address",
      "Low entropy - suspicious character repetition",
      "High zero count - possible vanity/generated address" }

HexDigits(a) == {a[i] : i \in 3..Len(a)}

\* C8 as stated: an ETH-format address off the deny-list with at least 5
\* distinct characters is valid and scored by the activity rules alone.
C8_ActivityOnly ==
    AddressCallDone =>
        LET a == Normalize(arg)
        IN  (is_eth(a) /\ a \notin KNOWN_SCAM_PATTERNS
                       /\ Cardinality(HexDigits(a)) >= 5) =>
                /\ response.valid
                /\ response.risk_score = ActivityPoints(response.simulated_stats)
                /\ \A i \in 1..Len(response.flags) :
                      response.flags[i] \notin StaticFlags

\* C8 as amended: an ETH-format address off the deny-list with at least 5
\* distinct characters among its 40 hex digits and at most 10 characters '0'
\* (the one of the 0x prefix counted) is valid and scored by the activity
\* rules alone.
C8_ActivityOnlyFewZeros ==
    AddressCallDone =>
        LET a == Normalize(arg)
        IN  (is_eth(a) /\ a \notin KNOWN_SCAM_PATTERNS
                       /\ Cardinality(HexDigits(a)) >= 5
                       /\ CountZero(a) <= 10) =>
                /\ response.valid
                /\ response.risk_score = ActivityPoints(response.simulated_stats)
                /\ \A i \in 1..Len(response.flags) :
                      response.flags[i] \notin StaticFlags

\* an ETH address with exactly 10 zeros and 5 or more distinct hex digits got
\* the 60 points of activity rules a and b and nothing else
C8_Witness ==
    /\ AddressCallDone
    /\ is_eth(Normalize(arg))
    /\ CountZero(Normalize(arg)) = 10
    /\ Cardinality(HexDigits(Normalize(arg))) >= 5
    /\ response.risk_score = 60

\* C9 as stated: each of the activity rules a, b and c has a seed that
\* satisfies its condition (among the seeds 0..MaxSeed, which hold every
\* residue modulo 100000 and so every value of balance and tx_count together).
C9_EachRuleTriggerable ==
    digest # <<>> =>
        /\ \E s \in 0..MaxSeed : s % 5000 > 2000 /\ s % 365 < 30
        /\ \E s \in 0..MaxSeed : s % 365 < 7 /\ s % 5000 > 100
        /\ \E s \in 0..MaxSeed : s % 100000 = 0 /\ s % 5000 > 500

\* C9 as amended: rule c is triggered by no seed (a zero balance means
\* seed % 100000 = 0, and then tx_count = seed % 5000 = 0), so the activity
\* rules give 0, 25, 35 or 60 points, at most 35 + 25 = 60; rules a and b are
\* triggerable, alone and together.
C9_RuleCNeverTriggered ==
    (pc = "done" /\ call = "activity") =>
        /\ response.tx_count = digest[1] % 5000
        /\ response.age_days = digest[1] % 365
        /\ response.balance = digest[1] % 100000
        /\ response.balance = 0 => response.tx_count = 0
        /\ ~InSeq("Zero balance despite high transaction count - possible dust attacker",
                  response.flags)
        /\ response.risk_score \in {0, 25, 35, 60}

\* a seed triggered rules a and b together: 60 points
C9_Witness ==
    /\ pc = "done"
    /\ call = "activity"
    /\ response.tx_count > 2000
    /\ response.age_days < 7
    /\ response.risk_score = 60

\* C10: analyze_address answers valid exactly when the normalized input has 20
\* characters or more; whatever matches the ETH or the BTC pattern has that
\* many, so the patterns decide the type only; and an address_check of
\* parse_intent, whose token has 26 characters or more, is always valid.
C10_ValidIffLength20 ==
    /\ AddressCallDone =>
          LET a == Normalize(arg)
          IN  /\ response.valid <=> Len(a) >= 20
              /\ (is_eth(a) \/ is_btc(a)) => Len(a) >= 20
              /\ response.valid =>
                    response.type = IF is_eth(a) THEN "ETH"
                                    ELSE IF is_btc(a) THEN "BTC" ELSE "TRAC/OTHER"
    /\ (RouterCallDone /\ response.body.intent = "address_check") =>
          /\ response.body.result.valid
          /\ Len(response.body.result.address) >= 26
          /\ ~InSeq("Invalid address format", response.body.result.flags)

\* an input of exactly 20 characters that matches neither pattern was scored
C10_Witness ==
    /\ AddressCallDone
    /\ Len(Normalize(arg)) = 20
    /\ ~is_eth(Normalize(arg))
    /\ ~is_btc(Normalize(arg))
    /\ response.valid
    /\ response.type = "TRAC/OTHER"

===========================================================================
